---- MODULE Spec2Model ----
(***************************************************************************)
(* A model of qualifier.py: the selector parser (Selector.from_str,        *)
(* Selectors.from_str), the per-node match test (Selector.match_node,      *)
(* Selectors.match_node) and the tree walk (verify_node,                   *)
(* query_selector_all).                                                    *)
(*                                                                         *)
(* Strings are sequences of one-character strings.  Python objects that    *)
(* are mutated in place (the class set of a Selector, the list of matched  *)
(* nodes) live in `heap` and are referred to by their address, so that     *)
(* sharing between instances or calls is something the model can show.     *)
(***************************************************************************)
EXTENDS Integers, Sequences, FiniteSets, TLC

VARIABLES
    entry,      \* the function that was called: "Selector.from_str", ...
    pc,         \* position in the program
    heap,       \* address -> mutable object [kind, v]: a set or a list
    selector,   \* Selector.from_str: the argument
    i,          \* Selector.from_str: position of `for ch in selector`
    mode,       \* Selector.from_str: local `mode`
    chars,      \* Selector.from_str: local `chars`
    sel,        \* Selector.from_str: local `sel`
    self,       \* Selector.match_node: the selector it is called on
    node,       \* Selector.match_node: the argument
    tree,       \* query_selector_all: the tree under the argument `node`
    text,       \* query_selector_all: the argument `selector`
    selectors,  \* Selectors.from_str: local `selectors`, the split pieces
    idx,        \* Selectors.from_str: position of the list comprehension
    items,      \* Selectors.from_str: the Selector objects built so far
    matched,    \* query_selector_all: address of the list `matched_nodes`
    stack,      \* verify_node: the active calls, innermost first
    returned    \* what the calls made so far returned, oldest first

vars == <<entry, pc, heap, selector, i, mode, chars, sel, self, node, tree,
          text, selectors, idx, items, matched, stack, returned>>

scanVars == <<selector, i, mode, chars, sel>>
matchVars == <<self, node>>
queryVars == <<tree, text, selectors, idx, items, matched, stack>>

\* ------------------------------------------------------------------ bounds

\* Longest clause handed to Selector.from_str.
MaxSelLen == 6

\* Longest class attribute value of a node handed to Selector.match_node.
MaxClassLen == 3

\* Most nodes of a tree, and longest selector list, handed to
\* query_selector_all.
MaxNodes == 3
MaxTextLen == 3

\* Longest selector list handed to query_selector_all in Spec.
MaxListLen == 2

\* Most calls made one after the other.
MaxCalls == 2

\* ------------------------------------------------------------- characters

\* Python's None, where a string is expected: no string of the model equals it.
None == <<"None">>

\* Characters of the clauses handed to Selector.from_str.
SelChars == {"a", "b", ".", "#", " "}

\* Characters of the class attribute values handed to Selector.match_node.
ClassChars == {"a", "b", " ", "\t"}

\* Characters of the selector lists handed to query_selector_all.
QueryChars == {"p", ".", "#", ",", " "}

StrUpTo(S, n) == UNION {[1..k -> S] : k \in 0..n}

\* The characters str.strip removes (those of them the model uses).
WhiteSpace == {" ", "\t", "\n"}

\* str.split(sep) with a one-character separator: every occurrence of sep
\* cuts, and empty pieces are kept.
RECURSIVE Split(_, _)
Split(s, sep) ==
    IF \A j \in 1..Len(s) : s[j] /= sep
    THEN <<s>>
    ELSE LET j == CHOOSE x \in 1..Len(s) :
                      /\ s[x] = sep
                      /\ \A y \in 1..(x - 1) : s[y] /= sep
         IN <<SubSeq(s, 1, j - 1)>> \o Split(SubSeq(s, j + 1, Len(s)), sep)

\* str.lstrip() for str.strip(): leading whitespace removed only.
lstrip(s) ==
    LET keep == {j \in 1..Len(s) : s[j] \notin WhiteSpace} IN
    IF keep = {}
    THEN <<>>
    ELSE SubSeq(s, CHOOSE lo \in keep : \A j \in keep : lo <= j, Len(s))

\* str.strip(): leading and trailing whitespace removed.
Strip(s) ==
    LET keep == {j \in 1..Len(s) : s[j] \notin WhiteSpace} IN
    IF keep = {}
    THEN <<>>
    ELSE SubSeq(s, CHOOSE lo \in keep : \A j \in keep : lo <= j,
                   CHOOSE hi \in keep : \A j \in keep : hi >= j)

\* The sequences of ss joined, in order.
RECURSIVE Concat(_)
Concat(ss) == IF ss = <<>> THEN <<>> ELSE Head(ss) \o Concat(Tail(ss))

\* dict.get(key, default)
Get(attributes, key, default) ==
    IF key \in DOMAIN attributes THEN attributes[key] ELSE default

\* ------------------------------------------------------------------- Mode

Mode == {"ID", "CLASS", "TAG"}

\* ---------------------------------------------------------------- Selector

\* cls() with a class-level default set, `klass = set()`, that every
\* instance shares, for `field(default_factory=set)`.
NewSelectorSharedSet(h) ==
    LET sets == {a \in 1..Len(h) : h[a].kind = "set"} IN
    IF sets = {}
    THEN [sel  |-> [id_ |-> <<>>, klass |-> Len(h) + 1, tag |-> <<>>],
          heap |-> Append(h, [kind |-> "set", v |-> {}])]
    ELSE [sel  |-> [id_   |-> <<>>,
                    klass |-> CHOOSE a \in sets : \A b \in sets : a <= b,
                    tag   |-> <<>>],
          heap |-> h]

\* cls(): id_ = "", klass = a new set (default_factory), tag = "".
NewSelector(h) ==
    [sel  |-> [id_ |-> <<>>, klass |-> Len(h) + 1, tag |-> <<>>],
     heap |-> Append(h, [kind |-> "set", v |-> {}])]

\* update_by_mode without `if len(chars) == 0: return`.
update_by_mode_unguarded(s, h, m, cs) ==
    CASE m = "ID" ->
           [sel |-> [s EXCEPT !.id_ = cs], heap |-> h, chars |-> <<>>]
      [] m = "CLASS" ->
           [sel   |-> s,
            heap  |-> [h EXCEPT ![s.klass].v = @ \cup {cs}],
            chars |-> <<>>]
      [] m = "TAG" ->
           [sel |-> [s EXCEPT !.tag = cs], heap |-> h, chars |-> <<>>]

\* update_by_mode with the ID case adding to the class set, as the CLASS
\* case does, instead of overwriting id_.
update_by_mode_id_added(s, h, m, cs) ==
    IF Len(cs) = 0
    THEN [sel |-> s, heap |-> h, chars |-> cs]
    ELSE CASE m = "TAG" ->
                [sel |-> [s EXCEPT !.tag = cs], heap |-> h, chars |-> <<>>]
           [] OTHER ->
                [sel   |-> s,
                 heap  |-> [h EXCEPT ![s.klass].v = @ \cup {cs}],
                 chars |-> <<>>]

\* update_by_mode with the ID case writing the tag.
update_by_mode_id_as_tag(s, h, m, cs) ==
    IF Len(cs) = 0
    THEN [sel |-> s, heap |-> h, chars |-> cs]
    ELSE CASE m = "CLASS" ->
                [sel   |-> s,
                 heap  |-> [h EXCEPT ![s.klass].v = @ \cup {cs}],
                 chars |-> <<>>]
           [] OTHER ->
                [sel |-> [s EXCEPT !.tag = cs], heap |-> h, chars |-> <<>>]

\* Selector.update_by_mode(mode, chars): the selector, the heap and the
\* list `chars` after the call.
update_by_mode(s, h, m, cs) ==
    IF Len(cs) = 0
    THEN [sel |-> s, heap |-> h, chars |-> cs]
    ELSE LET value == cs IN
         CASE m = "ID" ->
                [sel |-> [s EXCEPT !.id_ = value], heap |-> h, chars |-> <<>>]
           [] m = "CLASS" ->
                [sel   |-> s,
                 heap  |-> [h EXCEPT ![s.klass].v = @ \cup {value}],
                 chars |-> <<>>]
           [] m = "TAG" ->
                [sel |-> [s EXCEPT !.tag = value], heap |-> h, chars |-> <<>>]

\* The value of a Selector: its fields with the class set read from the heap.
SelValue(s, h) == [id_ |-> s.id_, klass |-> h[s.klass].v, tag |-> s.tag]

\* The class tokens Selector.match_node derives from a class attribute value:
\* split(" "), str.strip on every piece, empty pieces dropped.
class_set(value) ==
    LET classes == Split(value, " ") IN
    {Strip(classes[j]) : j \in 1..Len(classes)} \ {<<>>}

\* match_node with `self.klass == class_set` for `self.klass.issubset(class_set)`.
match_node_equal_classes(s, h, nd) ==
    LET matched_tag == ~(s.tag /= <<>> /\ s.tag /= nd.tag)
        id_ == Get(nd.attributes, "id", None)
        matched_id == ~(s.id_ /= <<>> /\ s.id_ /= id_)
        cset == class_set(Get(nd.attributes, "class", <<>>))
        matched_class ==
            ~(Cardinality(h[s.klass].v) /= 0 /\ ~(h[s.klass].v = cset))
    IN matched_tag /\ matched_id /\ matched_class

\* Selector.match_node(node), self being s with its class set in h.
match_node(s, h, nd) ==
    LET matched_tag == ~(s.tag /= <<>> /\ s.tag /= nd.tag)
        id_ == Get(nd.attributes, "id", None)
        matched_id == ~(s.id_ /= <<>> /\ s.id_ /= id_)
        cset == class_set(Get(nd.attributes, "class", <<>>))
        matched_class ==
            ~(Cardinality(h[s.klass].v) /= 0 /\ ~(h[s.klass].v \subseteq cset))
    IN matched_tag /\ matched_id /\ matched_class

\* Selectors.match_node(node): any(sel.match_node(node) for sel in items).
Selectors_match_node(its, h, nd) ==
    \E j \in 1..Len(its) : match_node(its[j], h, nd)

\* Selector.from_str as a function: one turn of `for ch in selector` on the
\* locals st = [sel, heap, mode, chars].
scan_char(st, ch) ==
    IF ch = "."
    THEN LET r == update_by_mode(st.sel, st.heap, st.mode, st.chars) IN
         [sel |-> r.sel, heap |-> r.heap, mode |-> "CLASS", chars |-> r.chars]
    ELSE IF ch = "#"
    THEN LET r == update_by_mode(st.sel, st.heap, st.mode, st.chars) IN
         [sel |-> r.sel, heap |-> r.heap, mode |-> "ID", chars |-> r.chars]
    ELSE [st EXCEPT !.chars = Append(@, ch)]

RECURSIVE scan_all(_, _, _)
scan_all(st, str, j) ==
    IF j > Len(str) THEN st ELSE scan_all(scan_char(st, str[j]), str, j + 1)

\* Selector.from_str(str) run on heap h: the Selector returned and the heap
\* after the call.
from_str(str, h) ==
    LET n == NewSelector(h)
        st == scan_all([sel |-> n.sel, heap |-> n.heap, mode |-> "TAG",
                        chars |-> <<>>], str, 1)
        r == update_by_mode(st.sel, st.heap, st.mode, st.chars)
    IN [sel |-> r.sel, heap |-> r.heap]

\* The value of the Selector that Selector.from_str(str) returns.
FromStrValue(str) ==
    LET r == from_str(str, <<>>) IN SelValue(r.sel, r.heap)

\* ------------------------------------------------- Selector.from_str (scan)

\* `sel = cls(); mode = Mode.TAG; chars = []` and the loop's iterator.
EnterFromStr(str, h) ==
    LET n == NewSelector(h) IN
    /\ selector' = str
    /\ sel' = n.sel
    /\ heap' = n.heap
    /\ mode' = "TAG"
    /\ chars' = <<>>
    /\ i' = 1

\* ScanDot raising on a '.' that closes an empty class or id run.
ScanDotStrict ==
    /\ pc = "scan"
    /\ i <= Len(selector)
    /\ selector[i] = "."
    /\ LET r == update_by_mode(sel, heap, mode, chars) IN
       /\ sel' = r.sel
       /\ heap' = r.heap
       /\ chars' = r.chars
    /\ mode' = "CLASS"
    /\ i' = i + 1
    /\ pc' = IF chars = <<>> /\ mode /= "TAG" THEN "error" ELSE pc
    /\ UNCHANGED <<entry, selector, returned>>
    /\ UNCHANGED <<matchVars, queryVars>>

\* ScanDot entering CLASS mode only from TAG mode.
ScanDotFromTagOnly ==
    /\ pc = "scan"
    /\ i <= Len(selector)
    /\ selector[i] = "."
    /\ LET r == update_by_mode(sel, heap, mode, chars) IN
       /\ sel' = r.sel
       /\ heap' = r.heap
       /\ chars' = r.chars
    /\ mode' = IF mode = "TAG" THEN "CLASS" ELSE mode
    /\ i' = i + 1
    /\ UNCHANGED <<entry, pc, selector, returned>>
    /\ UNCHANGED <<matchVars, queryVars>>

\* ch == ".": flush under the current mode, then mode = CLASS.
ScanDot ==
    /\ pc = "scan"
    /\ i <= Len(selector)
    /\ selector[i] = "."
    /\ LET r == update_by_mode(sel, heap, mode, chars) IN
       /\ sel' = r.sel
       /\ heap' = r.heap
       /\ chars' = r.chars
    /\ mode' = "CLASS"
    /\ i' = i + 1
    /\ UNCHANGED <<entry, pc, selector, returned>>
    /\ UNCHANGED <<matchVars, queryVars>>

\* ch == "#": flush under the current mode, then mode = ID.
ScanHash ==
    /\ pc = "scan"
    /\ i <= Len(selector)
    /\ selector[i] = "#"
    /\ LET r == update_by_mode(sel, heap, mode, chars) IN
       /\ sel' = r.sel
       /\ heap' = r.heap
       /\ chars' = r.chars
    /\ mode' = "ID"
    /\ i' = i + 1
    /\ UNCHANGED <<entry, pc, selector, returned>>
    /\ UNCHANGED <<matchVars, queryVars>>

\* Any other character: chars.append(ch).
ScanChar ==
    /\ pc = "scan"
    /\ i <= Len(selector)
    /\ selector[i] \notin {".", "#"}
    /\ chars' = Append(chars, selector[i])
    /\ i' = i + 1
    /\ UNCHANGED <<entry, pc, heap, selector, mode, sel, returned>>
    /\ UNCHANGED <<matchVars, queryVars>>

\* A call Selector.from_str(str) from outside.
CallFromStr(strs, maxCalls) ==
    /\ pc = "idle"
    /\ Len(returned) < maxCalls
    /\ \E str \in strs : EnterFromStr(str, heap)
    /\ entry' = "Selector.from_str"
    /\ pc' = "scan"
    /\ UNCHANGED <<returned, matchVars, queryVars>>

\* End of the loop: the final flush, then `return sel` to the outside caller.
FromStrReturn ==
    /\ pc = "scan"
    /\ entry = "Selector.from_str"
    /\ i > Len(selector)
    /\ LET r == update_by_mode(sel, heap, mode, chars) IN
       /\ sel' = r.sel
       /\ heap' = r.heap
       /\ chars' = r.chars
       /\ returned' = Append(returned,
               [fn |-> entry, arg |-> selector, value |-> r.sel])
    /\ pc' = "idle"
    /\ UNCHANGED <<entry, selector, i, mode>>
    /\ UNCHANGED <<matchVars, queryVars>>

\* ------------------------------------------------------ Selector.match_node

\* A call sv.match_node(nd) from outside, sv a selector value.
CallMatch(sels, nodes, maxCalls) ==
    /\ pc = "idle"
    /\ Len(returned) < maxCalls
    /\ \E sv \in sels, nd \in nodes :
          /\ heap' = Append(heap, [kind |-> "set", v |-> sv.klass])
          /\ self' = [id_ |-> sv.id_, klass |-> Len(heap) + 1, tag |-> sv.tag]
          /\ node' = nd
    /\ entry' = "Selector.match_node"
    /\ pc' = "match"
    /\ UNCHANGED <<returned, scanVars, queryVars>>

\* The body of Selector.match_node and its `return final`.
MatchReturn ==
    /\ pc = "match"
    /\ returned' = Append(returned,
            [fn |-> entry, arg |-> <<SelValue(self, heap), node>>,
             value |-> match_node(self, heap, node)])
    /\ pc' = "idle"
    /\ UNCHANGED <<entry, heap, scanVars, matchVars, queryVars>>

\* ------------------------------------------------------- query_selector_all

\* Selectors.from_str as a function: the list comprehension from piece j on,
\* run on heap h with the Selector objects `its` already built.
RECURSIVE from_str_each(_, _, _, _)
from_str_each(pieces, j, its, h) ==
    IF j > Len(pieces)
    THEN [items |-> its, heap |-> h]
    ELSE LET r == from_str(Strip(pieces[j]), h)
         IN from_str_each(pieces, j + 1, Append(its, r.sel), r.heap)

\* Selectors.from_str(selectors_str) run on heap h.
Selectors_from_str(selectors_str, h) ==
    from_str_each(Split(selectors_str, ","), 1, <<>>, h)

\* verify_node as a function: what the call on node n appends to `matched`.
RECURSIVE verify_node(_, _, _, _)
verify_node(tr, n, its, h) ==
    (IF Selectors_match_node(its, h, tr[n]) THEN <<n>> ELSE <<>>)
    \o Concat([c \in 1..Len(tr[n].children) |->
                  verify_node(tr, tr[n].children[c], its, h)])

\* query_selector_all(node, selector) as a function, node the root of tr.
query_selector_all(tr, selector_text) ==
    LET parsed == Selectors_from_str(selector_text, <<[kind |-> "list", v |-> <<>>]>>)
    IN verify_node(tr, 1, parsed.items, parsed.heap)


\* query_selector_all(node, selector): `matched_nodes = []`, then the
\* argument Selectors.from_str(selector) starts with selectors_str.split(",").
CallQuery(trees, texts, maxCalls) ==
    /\ pc = "idle"
    /\ Len(returned) < maxCalls
    /\ \E tr \in trees, tx \in texts :
          /\ tree' = tr
          /\ text' = tx
          /\ selectors' = Split(tx, ",")
    /\ heap' = Append(heap, [kind |-> "list", v |-> <<>>])
    /\ matched' = Len(heap) + 1
    /\ idx' = 1
    /\ items' = <<>>
    /\ stack' = <<>>
    /\ entry' = "query_selector_all"
    /\ pc' = "list"
    /\ UNCHANGED <<returned, scanVars, matchVars>>

\* The list comprehension of Selectors.from_str takes the next piece:
\* Selector.from_str(str.strip(piece)).
ListNext ==
    /\ pc = "list"
    /\ idx <= Len(selectors)
    /\ EnterFromStr(Strip(selectors[idx]), heap)
    /\ pc' = "scan"
    /\ UNCHANGED <<entry, returned, matchVars, queryVars>>

\* End of the loop of Selector.from_str when the list comprehension called
\* it: the final flush, then `return sel` into the list being built.
ListReturn ==
    /\ pc = "scan"
    /\ entry = "query_selector_all"
    /\ i > Len(selector)
    /\ LET r == update_by_mode(sel, heap, mode, chars) IN
       /\ sel' = r.sel
       /\ heap' = r.heap
       /\ chars' = r.chars
       /\ items' = Append(items, r.sel)
    /\ idx' = idx + 1
    /\ pc' = "list"
    /\ UNCHANGED <<entry, selector, i, mode, returned, matchVars>>
    /\ UNCHANGED <<tree, text, selectors, matched, stack>>

\* The comprehension is exhausted: cls(items), and query_selector_all calls
\* verify_node(node, selectors, matched=matched_nodes) on the root.
ListDone ==
    /\ pc = "list"
    /\ idx > Len(selectors)
    /\ stack' = <<[node |-> 1, child |-> 0]>>
    /\ pc' = "verify"
    /\ UNCHANGED <<entry, heap, returned, scanVars, matchVars>>
    /\ UNCHANGED <<tree, text, selectors, idx, items, matched>>

\* VerifyNode not walking the children of a node that matched.
VerifyNodeStopAtMatch ==
    /\ pc = "verify"
    /\ stack /= <<>>
    /\ Head(stack).child = 0
    /\ LET n == Head(stack).node
           hit == Selectors_match_node(items, heap, tree[n])
       IN /\ heap' = IF hit
                      THEN [heap EXCEPT ![matched].v = Append(@, n)]
                      ELSE heap
          /\ stack' = <<[Head(stack) EXCEPT !.child =
                            IF hit THEN Len(tree[n].children) + 1 ELSE 1]>>
                       \o Tail(stack)
    /\ UNCHANGED <<entry, pc, returned, scanVars, matchVars>>
    /\ UNCHANGED <<tree, text, selectors, idx, items, matched>>

\* verify_node, first statement: `if selector.match_node(node):
\* matched.append(node)`.  A frame with child = 0 has not run it yet.
VerifyNode ==
    /\ pc = "verify"
    /\ stack /= <<>>
    /\ Head(stack).child = 0
    /\ LET n == Head(stack).node IN
       heap' = IF Selectors_match_node(items, heap, tree[n])
               THEN [heap EXCEPT ![matched].v = Append(@, n)]
               ELSE heap
    /\ stack' = <<[Head(stack) EXCEPT !.child = 1]>> \o Tail(stack)
    /\ UNCHANGED <<entry, pc, returned, scanVars, matchVars>>
    /\ UNCHANGED <<tree, text, selectors, idx, items, matched>>

\* verify_node, `for child in node.children`: the recursive call on the next
\* child.
VerifyChild ==
    /\ pc = "verify"
    /\ stack /= <<>>
    /\ LET f == Head(stack)
           children == tree[f.node].children
       IN /\ f.child >= 1
          /\ f.child <= Len(children)
          /\ stack' = <<[node |-> children[f.child], child |-> 0],
                        [f EXCEPT !.child = f.child + 1]>> \o Tail(stack)
    /\ UNCHANGED <<entry, pc, heap, returned, scanVars, matchVars>>
    /\ UNCHANGED <<tree, text, selectors, idx, items, matched>>

\* verify_node returns to the verify_node that called it.
VerifyReturn ==
    /\ pc = "verify"
    /\ Len(stack) > 1
    /\ Head(stack).child > Len(tree[Head(stack).node].children)
    /\ stack' = Tail(stack)
    /\ UNCHANGED <<entry, pc, heap, returned, scanVars, matchVars>>
    /\ UNCHANGED <<tree, text, selectors, idx, items, matched>>

\* verify_node on the root returns, and query_selector_all returns
\* matched_nodes.
QueryReturn ==
    /\ pc = "verify"
    /\ Len(stack) = 1
    /\ Head(stack).child > Len(tree[Head(stack).node].children)
    /\ stack' = <<>>
    /\ returned' = Append(returned,
            [fn |-> entry, arg |-> <<tree, text>>, value |-> matched])
    /\ pc' = "idle"
    /\ UNCHANGED <<entry, heap, scanVars, matchVars>>
    /\ UNCHANGED <<tree, text, selectors, idx, items, matched>>

\* ------------------------------------------------------------------- inputs

\* The nodes of a tree are numbered 1..n, the root is 1, and a node's
\* children are the nodes naming it as parent, in ascending order.
ParentVectors(n) == {f \in [2..n -> 1..n] : \A j \in 2..n : f[j] < j}

RECURSIVE Ascending(_)
Ascending(S) ==
    IF S = {}
    THEN <<>>
    ELSE LET m == CHOOSE x \in S : \A y \in S : x <= y
         IN <<m>> \o Ascending(S \ {m})

MakeTree(n, parent, kind) ==
    [j \in 1..n |->
        [tag        |-> kind[j].tag,
         attributes |-> kind[j].attributes,
         children   |-> Ascending({c \in 2..n : parent[c] = j})]]

TreesUpTo(kinds, maxn) ==
    UNION {{MakeTree(n, f, kd) : f \in ParentVectors(n), kd \in [1..n -> kinds]}
           : n \in 1..maxn}

\* A node's attributes: "id" and "class" present unless None.
Attributes(id, class) ==
    [key \in ({"id"} \cap (IF id = None THEN {} ELSE {"id"}))
             \cup ({"class"} \cap (IF class = None THEN {} ELSE {"class"}))
        |-> IF key = "id" THEN id ELSE class]

\* The state before any call.
Idle ==
    /\ entry = "none"
    /\ pc = "idle"
    /\ heap = <<>>
    /\ selector = <<>>
    /\ i = 1
    /\ mode = "TAG"
    /\ chars = <<>>
    /\ sel = None
    /\ self = None
    /\ node = None
    /\ tree = <<>>
    /\ text = <<>>
    /\ selectors = <<>>
    /\ idx = 1
    /\ items = <<>>
    /\ matched = 0
    /\ stack = <<>>
    /\ returned = <<>>

\* ---- SpecSel: one call Selector.from_str(str), str any clause up to
\* MaxSelLen.
CallFromStrOnce == CallFromStr(StrUpTo(SelChars, MaxSelLen), 1)

NextSel == CallFromStrOnce \/ ScanDot \/ ScanHash \/ ScanChar \/ FromStrReturn

SpecSel == Idle /\ [][NextSel]_vars

\* ---- SpecMatch: one call of Selector.match_node.
MatchSelectors ==
    [id_   : {<<>>, <<"x">>},
     klass : SUBSET {<<"a">>, <<"b">>, <<"a", "b">>},
     tag   : {<<>>, <<"p">>, <<"P">>}]

MatchNodes ==
    {[tag |-> t, attributes |-> Attributes(id, cl), children |-> <<>>] :
        t \in {<<"p">>, <<"q">>},
        id \in {None, <<>>, <<"x">>, <<"y">>},
        cl \in {None} \cup StrUpTo(ClassChars, MaxClassLen)}

CallMatchOnce == CallMatch(MatchSelectors, MatchNodes, 1)

NextMatch == CallMatchOnce \/ MatchReturn

SpecMatch == Idle /\ [][NextMatch]_vars

\* ---- SpecQuery: one call of query_selector_all.
QueryKinds ==
    {[tag |-> <<"p">>, attributes |-> Attributes(None, None)],
     [tag |-> <<"q">>,
      attributes |-> Attributes(<<"p">>, <<"p", " ", " ", "q">>)]}

CallQueryOnce ==
    CallQuery(TreesUpTo(QueryKinds, MaxNodes), StrUpTo(QueryChars, MaxTextLen), 1)

NextQuery ==
    \/ CallQueryOnce
    \/ ListNext
    \/ ScanDot
    \/ ScanHash
    \/ ScanChar
    \/ ListReturn
    \/ ListDone
    \/ VerifyNode
    \/ VerifyChild
    \/ VerifyReturn
    \/ QueryReturn

SpecQuery == Idle /\ [][NextQuery]_vars

\* ---- Spec: one call, of Selector.from_str or of query_selector_all, on
\* any string of the characters of selector lists.
CallFromStrAny == CallFromStr(StrUpTo(QueryChars, MaxTextLen), 1)

CallQueryAny ==
    CallQuery(TreesUpTo(QueryKinds, MaxNodes), StrUpTo(QueryChars, MaxListLen), 1)

Next ==
    \/ CallFromStrAny
    \/ FromStrReturn
    \/ CallQueryAny
    \/ ListNext
    \/ ScanDot
    \/ ScanHash
    \/ ScanChar
    \/ ListReturn
    \/ ListDone
    \/ VerifyNode
    \/ VerifyChild
    \/ VerifyReturn
    \/ QueryReturn

Spec == Idle /\ [][Next]_vars

\* ---- SpecCalls: up to MaxCalls calls, one after the other, on a few
\* arguments.
CallTexts ==
    {<<>>,
     <<".", "a">>,
     <<".", "b">>,
     <<".", "a", ",", ".", "b">>,
     <<"a", "#", "b">>}

CallTrees ==
    {<<[tag |-> <<"a">>, attributes |-> Attributes(None, <<"a">>),
        children |-> <<2>>],
       [tag |-> <<"b">>, attributes |-> Attributes(<<"b">>, <<"a", " ", "b">>),
        children |-> <<>>]>>}

CallFromStrAgain == CallFromStr(CallTexts, MaxCalls)

CallQueryAgain == CallQuery(CallTrees, CallTexts, MaxCalls)

NextCalls ==
    \/ CallFromStrAgain
    \/ FromStrReturn
    \/ CallQueryAgain
    \/ ListNext
    \/ ScanDot
    \/ ScanHash
    \/ ScanChar
    \/ ListReturn
    \/ ListDone
    \/ VerifyNode
    \/ VerifyChild
    \/ VerifyReturn
    \/ QueryReturn

SpecCalls == Idle /\ [][NextCalls]_vars

\* =================================================================== claims

\* ---- what the claims speak of, stated on the clause text alone

IsDelim(c) == c \in {".", "#"}

DelimPos(t) == {j \in 1..Len(t) : IsDelim(t[j])}

\* The run of characters after position j (0: from the start) up to the next
\* '.' or '#', or to the end.
RunAfter(t, j) ==
    LET later == {x \in DelimPos(t) : x > j} IN
    IF later = {}
    THEN SubSeq(t, j + 1, Len(t))
    ELSE SubSeq(t, j + 1, (CHOOSE x \in later : \A y \in later : x <= y) - 1)

TagRun(t) == RunAfter(t, 0)

ClassRuns(t) == {RunAfter(t, j) : j \in {x \in DelimPos(t) : t[x] = "."}} \ {<<>>}

IdRunPos(t) == {j \in DelimPos(t) : t[j] = "#" /\ RunAfter(t, j) /= <<>>}

LastIdRun(t) ==
    IF IdRunPos(t) = {}
    THEN <<>>
    ELSE RunAfter(t, CHOOSE x \in IdRunPos(t) : \A y \in IdRunPos(t) : x >= y)

NoDelim(t) == \A j \in 1..Len(t) : ~IsDelim(t[j])

\* t without the '.' and '#' that are followed by no run: those directly
\* before another '.' or '#', or at the end.
RECURSIVE DropEmptyRuns(_)
DropEmptyRuns(t) ==
    IF t = <<>>
    THEN <<>>
    ELSE IF IsDelim(t[1]) /\ (Len(t) = 1 \/ IsDelim(t[2]))
    THEN DropEmptyRuns(Tail(t))
    ELSE <<t[1]>> \o DropEmptyRuns(Tail(t))

\* The calls of Selector.from_str that have returned.
FromStrCalls == {j \in 1..Len(returned) : returned[j].fn = "Selector.from_str"}

\* ---- C5

C5_Step ==
    (/\ pc = "scan"
     /\ chars = <<>>
     /\ (i > Len(selector) \/ IsDelim(selector[i])))
    => (sel' = sel /\ heap' = heap)

C5_Final ==
    \A j \in FromStrCalls :
        LET v == SelValue(returned[j].value, heap) IN
        /\ <<>> \notin v.klass
        /\ v = FromStrValue(DropEmptyRuns(returned[j].arg))

\* C5: a flush with an empty accumulator changes nothing: when '.', '#' or
\* the end of the clause is reached with no pending character, the selector
\* and its class set stay as they are; so the empty string is never a class,
\* and a clause parses to the same Selector as the clause without its '.' and
\* '#' that no run follows ("a..", "a." and "a" agree; "#a#" keeps id a).
C5_EmptyFlushIsNoop == [][C5_Step]_vars /\ []C5_Final

\* C5 happens: an empty flush after consecutive delimiters, with a tag set.
C5_Witness ==
    /\ pc = "scan"
    /\ i >= 4
    /\ IsDelim(selector[i - 1])
    /\ IsDelim(selector[i - 2])
    /\ sel.tag /= <<>>
    /\ chars = <<>>

\* ---- C6

C6_Step ==
    (/\ pc = "scan"
     /\ chars /= <<>>
     /\ (i > Len(selector) \/ IsDelim(selector[i])))
    => CASE mode = "CLASS" ->
              /\ sel' = sel
              /\ heap' = [heap EXCEPT ![sel.klass].v = @ \cup {chars}]
         [] mode = "ID" ->
              /\ sel' = [sel EXCEPT !.id_ = chars]
              /\ heap' = heap
         [] mode = "TAG" ->
              /\ sel' = [sel EXCEPT !.tag = chars]
              /\ heap' = heap

C6_Final ==
    \A j \in FromStrCalls :
        LET v == SelValue(returned[j].value, heap) IN
        /\ v.klass = ClassRuns(returned[j].arg)
        /\ v.id_ = LastIdRun(returned[j].arg)

\* C6: a non-empty run is committed to the mode that was current before the
\* delimiter (or the end) that closes it, whatever that delimiter is: in
\* CLASS mode it is added to the class set, in ID mode it overwrites id.  So
\* the classes of the parsed clause are exactly its non-empty class runs and
\* its id is its last non-empty id run.
C6_FlushByMode == [][C6_Step]_vars /\ []C6_Final

\* C6 happens: a clause with two id runs and a class run has been parsed.
C6_Witness ==
    \E j \in FromStrCalls :
        /\ Cardinality(IdRunPos(returned[j].arg)) = 2
        /\ ClassRuns(returned[j].arg) /= {}
        /\ returned[j].value.id_ = <<"b">>
        /\ <<"a">> \in heap[returned[j].value.klass].v

\* ---- C10

C10_Step ==
    (pc = "scan" /\ pc' = "scan")
    => /\ mode /= "TAG" => mode' /= "TAG"
       /\ mode' /= mode =>
             \/ mode' = "CLASS" /\ selector[i] = "."
             \/ mode' = "ID" /\ selector[i] = "#"

C10_Scan ==
    pc = "scan" =>
       /\ mode = "TAG" <=> \A j \in 1..(i - 1) : ~IsDelim(selector[j])
       /\ mode /= "TAG" => sel.tag = TagRun(selector)

C10_Final ==
    \A j \in FromStrCalls :
        LET v == SelValue(returned[j].value, heap) IN
        /\ v.tag = TagRun(returned[j].arg)
        /\ NoDelim(v.tag)
        /\ NoDelim(v.id_)
        /\ \A c \in v.klass : NoDelim(c)

\* C10: a scan starts in TAG mode and never returns to it once a '.' or '#'
\* has been read (the mode changes only to CLASS on '.' and to ID on '#').
\* The tag is fixed from then on: the parsed tag is the prefix of the clause
\* before its first '.' or '#', and no parsed tag, id or class holds a '.' or
\* a '#'.
C10_TagModeOnlyFirst == [][C10_Step]_vars /\ [](C10_Scan /\ C10_Final)

\* C10 happens: a clause with a tag, then an id run and a class run, has
\* been parsed.
C10_Witness ==
    \E j \in FromStrCalls :
        /\ returned[j].value.tag /= <<>>
        /\ returned[j].value.id_ /= <<>>
        /\ heap[returned[j].value.klass].v /= {}

\* ---- C4

\* The tokens of t, in order: each '.' or '#' with the run after it.
Tokens(t) ==
    LET pos == Ascending(DelimPos(t)) IN
    [j \in 1..Len(pos) |-> <<t[pos[j]]>> \o RunAfter(t, pos[j])]

\* The clauses made of t's tag run followed by t's tokens in any order.
Reorderings(t) ==
    LET toks == Tokens(t) IN
    {TagRun(t) \o Concat([j \in 1..Len(toks) |-> toks[f[j]]]) :
        f \in Permutations(1..Len(toks))}

\* A tag run, then one '#' token and any '.' tokens, every run non-empty.
OneIdNoEmptyRun(t) ==
    /\ Cardinality({j \in DelimPos(t) : t[j] = "#"}) = 1
    /\ \A j \in DelimPos(t) : RunAfter(t, j) /= <<>>

\* C4: a clause made of a tag run followed by one '#id' token and '.class'
\* tokens, all runs non-empty, parses to tag = the tag run, id = the id run,
\* classes = the set of class runs, and so does every clause that has the
\* same tokens after the tag in another order.
C4_OrderIndependent ==
    \A j \in FromStrCalls :
        LET t == returned[j].arg
            v == SelValue(returned[j].value, heap)
        IN OneIdNoEmptyRun(t) =>
              /\ v = [id_   |-> LastIdRun(t),
                      klass |-> ClassRuns(t),
                      tag   |-> TagRun(t)]
              /\ \A u \in Reorderings(t) : FromStrValue(u) = v

\* C4 happens: a clause with a tag, a class token and then the id token has
\* been parsed (its reordering tag#id.class is a clause of the model too).
C4_Witness ==
    \E j \in FromStrCalls :
        LET t == returned[j].arg IN
        /\ OneIdNoEmptyRun(t)
        /\ TagRun(t) /= <<>>
        /\ Len(Tokens(t)) >= 2
        /\ Tokens(t)[1][1] = "."

\* ---- C2

\* The calls of Selector.match_node that have returned.
MatchCalls == {j \in 1..Len(returned) : returned[j].fn = "Selector.match_node"}

HasAttr(nd, key) == key \in DOMAIN nd.attributes

\* A node without an id attribute behaves like one whose id is empty.
NodeId(nd) == IF HasAttr(nd, "id") THEN nd.attributes["id"] ELSE <<>>

\* The class tokens of a node: none without a class attribute.
NodeTokens(nd) ==
    IF HasAttr(nd, "class") THEN class_set(nd.attributes["class"]) ELSE {}

TagPasses(sv, nd) == sv.tag = <<>> \/ sv.tag = nd.tag

IdPasses(sv, nd) == sv.id_ = <<>> \/ sv.id_ = NodeId(nd)

ClassPasses(sv, nd) == sv.klass = {} \/ sv.klass \subseteq NodeTokens(nd)

\* C2: Selector.match_node(node) is true exactly when the tag check, the id
\* check and the class check all pass: the selector's tag is empty or is
\* the node's tag; its id is empty or is the node's id (empty for a node
\* without an id attribute); its class set is empty or a subset of the
\* node's class tokens (none for a node without a class attribute).
C2_MatchIsConjunction ==
    \A j \in MatchCalls :
        LET sv == returned[j].arg[1]
            nd == returned[j].arg[2]
        IN returned[j].value
              <=> (TagPasses(sv, nd) /\ IdPasses(sv, nd) /\ ClassPasses(sv, nd))

\* C2 happens: a selector with a tag, an id and a class has matched a node
\* that carries one more class than the selector asks for.
C2_Witness ==
    \E j \in MatchCalls :
        LET sv == returned[j].arg[1]
            nd == returned[j].arg[2]
        IN /\ returned[j].value
           /\ sv.tag /= <<>>
           /\ sv.id_ /= <<>>
           /\ sv.klass = {<<"a">>}
           /\ NodeTokens(nd) = {<<"a">>, <<"b">>}

\* ---- C3

\* The maximal non-empty runs of non-whitespace characters of v.
NonSpaceRuns(v) ==
    {SubSeq(v, p[1], p[2]) : p \in
        {q \in (1..Len(v)) \X (1..Len(v)) :
            /\ q[1] <= q[2]
            /\ \A z \in q[1]..q[2] : v[z] \notin WhiteSpace
            /\ q[1] = 1 \/ v[q[1] - 1] \in WhiteSpace
            /\ q[2] = Len(v) \/ v[q[2] + 1] \in WhiteSpace}}

\* C3: the class tokens match_node uses are the maximal runs of
\* non-whitespace characters of the class value, whatever whitespace
\* separates them; so, tag and id passing, a node with a class attribute
\* matches exactly when the selector's classes are all among those runs.
C3_TokensAreNonSpaceRuns ==
    \A j \in MatchCalls :
        LET sv == returned[j].arg[1]
            nd == returned[j].arg[2]
        IN HasAttr(nd, "class") =>
              /\ class_set(nd.attributes["class"])
                    = NonSpaceRuns(nd.attributes["class"])
              /\ (TagPasses(sv, nd) /\ IdPasses(sv, nd)) =>
                    (returned[j].value
                       <=> sv.klass \subseteq NonSpaceRuns(nd.attributes["class"]))

\* ---- C1

\* The calls of query_selector_all that have returned.
QueryCalls == {j \in 1..Len(returned) : returned[j].fn = "query_selector_all"}

\* The list a call of query_selector_all returned.
QueryResult(j) == heap[returned[j].value].v

\* A selector value matches a node: the three checks of C2.
SelMatches(sv, nd) ==
    TagPasses(sv, nd) /\ IdPasses(sv, nd) /\ ClassPasses(sv, nd)

\* The clauses of a selector list, parsed.
Clauses(tx) ==
    LET ps == Split(tx, ",") IN {FromStrValue(Strip(ps[j])) : j \in 1..Len(ps)}

\* The nodes from the root down to n.
RECURSIVE PathTo(_, _)
PathTo(tr, n) ==
    IF n = 1
    THEN <<1>>
    ELSE LET par == CHOOSE m \in 1..Len(tr) :
                        \E c \in 1..Len(tr[m].children) : tr[m].children[c] = n
         IN Append(PathTo(tr, par), n)

ChildIndex(tr, par, n) ==
    CHOOSE c \in 1..Len(tr[par].children) : tr[par].children[c] = n

\* a comes before b in pre-order: a is an ancestor of b, or where their
\* paths part a's branch is a child to the left of b's.
PreBefore(tr, a, b) ==
    LET pa == PathTo(tr, a)
        pb == PathTo(tr, b)
        same == {d \in 1..Len(pa) : d <= Len(pb) /\ \A e \in 1..d : pa[e] = pb[e]}
        d == Cardinality(same)
    IN /\ a /= b
       /\ \/ d = Len(pa)
          \/ /\ d < Len(pa)
             /\ d < Len(pb)
             /\ ChildIndex(tr, pa[d], pa[d + 1]) < ChildIndex(tr, pa[d], pb[d + 1])

\* C1: query_selector_all returns the nodes of the tree, the root included,
\* that at least one clause of the list matches: each exactly once, none
\* else, in pre-order.
C1_PreorderMatches ==
    \A j \in QueryCalls :
        LET tr == returned[j].arg[1]
            r == QueryResult(j)
        IN /\ {r[a] : a \in 1..Len(r)} =
                 {n \in 1..Len(tr) :
                     \E sv \in Clauses(returned[j].arg[2]) : SelMatches(sv, tr[n])}
           /\ \A a, b \in 1..Len(r) : a < b => PreBefore(tr, r[a], r[b])

\* C1 happens: a query has returned a node and one of its descendants, the
\* node matching two clauses of the list, and has left a node out.
C1_Witness ==
    \E j \in QueryCalls :
        LET tr == returned[j].arg[1]
            r == QueryResult(j)
        IN /\ Len(r) >= 2
           /\ Len(r) < Len(tr)
           /\ r[2] \in {tr[r[1]].children[c] : c \in 1..Len(tr[r[1]].children)}
           /\ Len(items) >= 2
           /\ match_node(items[1], heap, tr[r[1]])
           /\ match_node(items[2], heap, tr[r[1]])

\* ---- C7

CommaPos(tx) == {j \in 1..Len(tx) : tx[j] = ","}

\* The j-th comma-separated piece of tx.
Piece(tx, j) ==
    LET cp == Ascending(CommaPos(tx))
        from == IF j = 1 THEN 1 ELSE cp[j - 1] + 1
        to == IF j > Len(cp) THEN Len(tx) ELSE cp[j] - 1
    IN SubSeq(tx, from, to)

RECURSIVE DropLeadingSpace(_)
DropLeadingSpace(t) ==
    IF t /= <<>> /\ t[1] \in WhiteSpace THEN DropLeadingSpace(Tail(t)) ELSE t

RECURSIVE DropTrailingSpace(_)
DropTrailingSpace(t) ==
    IF t /= <<>> /\ t[Len(t)] \in WhiteSpace
    THEN DropTrailingSpace(SubSeq(t, 1, Len(t) - 1))
    ELSE t

Trimmed(t) == DropTrailingSpace(DropLeadingSpace(t))

OnlySpace(t) == \A j \in 1..Len(t) : t[j] \in WhiteSpace

Universal == [id_ |-> <<>>, klass |-> {}, tag |-> <<>>]

\* All the nodes under n, n included, in pre-order.
RECURSIVE Preorder(_, _)
Preorder(tr, n) ==
    <<n>> \o Concat([c \in 1..Len(tr[n].children) |->
                        Preorder(tr, tr[n].children[c])])

\* The list of Selector objects is complete.
ItemsBuilt == entry = "query_selector_all" /\ pc \in {"verify", "idle"}

\* C7: Selectors.from_str yields one Selector per comma-separated piece, in
\* order (commas + 1 of them), each the parse of the piece without its
\* leading and trailing whitespace; an empty or whitespace-only piece gives
\* the universal selector, and a query whose list has such a piece returns
\* every node of the tree in pre-order.
C7_OneSelectorPerPiece ==
    /\ ItemsBuilt =>
          /\ Len(items) = Cardinality(CommaPos(text)) + 1
          /\ \A j \in 1..Len(items) :
                /\ SelValue(items[j], heap) = FromStrValue(Trimmed(Piece(text, j)))
                /\ OnlySpace(Piece(text, j)) => SelValue(items[j], heap) = Universal
    /\ \A j \in QueryCalls :
          LET tx == returned[j].arg[2] IN
          (\E c \in 1..(Cardinality(CommaPos(tx)) + 1) : OnlySpace(Piece(tx, c)))
             => QueryResult(j) = Preorder(returned[j].arg[1], 1)

\* C7 happens: a query whose list ends in a comma, after a padded clause
\* that alone does not match every node, has returned all of several nodes.
C7_Witness ==
    \E j \in QueryCalls :
        LET tx == returned[j].arg[2] IN
        /\ Len(tx) >= 3
        /\ tx[Len(tx)] = ","
        /\ tx[1] \in WhiteSpace
        /\ Len(items) = 2
        /\ SelValue(items[1], heap) /= Universal
        /\ Len(QueryResult(j)) >= 2
        /\ \E n \in 1..Len(tree) : ~match_node(items[1], heap, tree[n])

\* ---- C8

RECURSIVE Sum(_)
Sum(ns) == IF ns = <<>> THEN 0 ELSE Head(ns) + Sum(Tail(ns))

\* The steps verify_node takes on node n and below: the match test, a call
\* per child with the child's own steps, and the return.
RECURSIVE WalkSteps(_, _)
WalkSteps(tr, n) ==
    2 + Sum([c \in 1..Len(tr[n].children) |->
                1 + WalkSteps(tr, tr[n].children[c])])

\* The steps left to an active call of verify_node.
FrameSteps(tr, f) ==
    IF f.child = 0
    THEN WalkSteps(tr, f.node)
    ELSE 1 + Sum([c \in 1..Len(tr[f.node].children) |->
                     IF c < f.child
                     THEN 0
                     ELSE 1 + WalkSteps(tr, tr[f.node].children[c])])

\* The steps the pieces from the j-th on take to parse: one to start each,
\* one per character, one to return.
PieceSteps(j) ==
    Sum([m \in 1..Len(selectors) |->
            IF m < j THEN 0 ELSE Len(Trimmed(selectors[m])) + 2])

\* The steps left to the running call: 0 when none runs.
StepsLeft ==
    CASE pc = "idle" -> 0
      [] pc = "scan" /\ entry = "Selector.from_str" ->
            (Len(selector) + 1 - i) + 1
      [] pc = "scan" /\ entry = "query_selector_all" ->
            (Len(selector) + 1 - i) + 1 + PieceSteps(idx + 1)
               + 1 + WalkSteps(tree, 1)
      [] pc = "list" -> PieceSteps(idx) + 1 + WalkSteps(tree, 1)
      [] pc = "verify" ->
            Sum([f \in 1..Len(stack) |-> FrameSteps(tree, stack[f])])

C8_Step ==
    /\ (pc = "scan" /\ i <= Len(selector))
          => (i' = i + 1 /\ selector' = selector /\ pc' = "scan")
    /\ pc /= "idle" => StepsLeft' = StepsLeft - 1

C8_Inv ==
    /\ pc \in {"idle", "scan", "list", "verify"}
    /\ pc = "scan" => i \in 1..(Len(selector) + 1)
    /\ StepsLeft \in Nat
    /\ StepsLeft = 0 <=> pc = "idle"
    /\ returned = <<>> => ENABLED Next
    /\ pc = "idle" /\ entry /= "none" => Len(returned) = 1
    /\ \A j \in FromStrCalls :
          /\ returned[j].value.klass \in 1..Len(heap)
          /\ SelValue(returned[j].value, heap) = FromStrValue(returned[j].arg)
    /\ \A j \in QueryCalls :
          \A a \in 1..Len(QueryResult(j)) :
              QueryResult(j)[a] \in 1..Len(returned[j].arg[1])

\* C8: parsing is total and deterministic.  A scan reads the characters of
\* its string one after the other, each once, whatever they are; no state
\* before the return is stuck or an error; the Selector returned is a
\* function of the string.  Every call, of Selector.from_str and of
\* query_selector_all on a finite tree, returns: each step leaves one step
\* less to take, and when none is left the call has returned its result.
C8_ParsingTotal == [][C8_Step]_vars /\ []C8_Inv

\* C8 happens: a string made only of delimiters and whitespace has been
\* parsed, and a query with such a list has returned.
C8_Witness ==
    /\ Len(returned) = 1
    /\ \/ /\ returned[1].fn = "Selector.from_str"
          /\ returned[1].arg = <<"#", ",", ".">>
       \/ /\ returned[1].fn = "query_selector_all"
          /\ returned[1].arg[2] = <<",", ".">>
          /\ Len(returned[1].arg[1]) = MaxNodes

\* ---- C9

\* C9: calls are independent.  Whatever calls came before, a call's result
\* is the one the same call gives on its own, and stays so while later
\* calls run; a new Selector starts with no tag, no id and an empty class
\* set, also the later clauses of one list; a query starts with an empty
\* result list.
C9_CallsIndependent ==
    /\ \A j \in FromStrCalls :
          SelValue(returned[j].value, heap) = FromStrValue(returned[j].arg)
    /\ \A j \in QueryCalls :
          QueryResult(j) = query_selector_all(returned[j].arg[1], returned[j].arg[2])
    /\ (pc = "scan" /\ i = 1) => SelValue(sel, heap) = Universal
    /\ (pc = "list" /\ idx = 1) => heap[matched].v = <<>>
    /\ \A j \in 1..Len(items) :
          SelValue(items[j], heap) = FromStrValue(Strip(selectors[j]))

\* C9 happens: ".a" was parsed, then a query with the list ".a,.b" has
\* built its two selectors and returned nodes.
C9_Witness ==
    /\ Len(returned) = 2
    /\ returned[1].fn = "Selector.from_str"
    /\ returned[1].arg = <<".", "a">>
    /\ returned[2].fn = "query_selector_all"
    /\ returned[2].arg[2] = <<".", "a", ",", ".", "b">>
    /\ Len(QueryResult(2)) = 2
    /\ SelValue(items[2], heap).klass = {<<"b">>}

====
